---- MODULE Spec2Model ----
(***************************************************************************)
(* Model of the event scraper's normalisation and deduplication pipeline   *)
(* (src/utils/deduplicator.py, src/utils/normalizer.py,                    *)
(* src/utils/date_parser.py).                                              *)
(*                                                                         *)
(* A Python str is a sequence of one-character strings.  A Python dict is  *)
(* a function whose DOMAIN is the set of keys present.  None and int      *)
(* values are PyNone and PyInt(digits).  Each function of the code has its *)
(* own specification: its arguments are drawn by the initial predicate and *)
(* its actions apply it.                                                   *)
(***************************************************************************)
EXTENDS Integers, Sequences, FiniteSets, TLC

VARIABLES
    events,         \* deduplicate_events: the argument list
    unique,         \* deduplicate_events(events)
    again,          \* deduplicate_events(unique)
    dstage,         \* "input", "once" (unique computed), "twice" (again computed)
    ev1, ev2,       \* create_event_hash: two argument events
    hash1, hash2,   \* their digests
    hstage,         \* "input", "hashed"
    now,            \* the wall clock read by datetime.now(), in ticks
    rec,            \* normalize_event: the argument record
    out,            \* normalize_event(rec)
    called_at,      \* the clock when normalize_event(rec) ran
    ostage,         \* "input", "normalized"
    raw,            \* normalize_events: the argument list
    ni,             \* normalize_events: records consumed by the for loop
    normalized_events,  \* normalize_events: the local list
    nstage,         \* "loop", "returned"
    pc,             \* the orchestrator's position in main()
    config_file,    \* what config/sites.yaml holds
    sites,          \* self.sites
    si,             \* _scrape_all_sites: sources the for loop has finished
    attempt,        \* scrape_with_retry: the loop variable
    all_events,     \* self.all_events
    stats,          \* self.stats
    original_count, \* run: the local of step 3
    exit_code,      \* the status of sys.exit, 0 while the process has not exited
    calls,          \* scrape() calls made for the current source
    sleeps,         \* time.sleep calls made for the current source
    hist,           \* per finished source: how it ended and what it yielded
    log,            \* the stages of run() entered so far, in order
    sink,           \* the calls made on the SheetsExporter, in order
    exported,       \* how _export_to_sheets ended, "none" before it has
    report,         \* the report file: its status and the statistics in it
    interrupted,    \* a KeyboardInterrupt was raised in run()
    time_arg,       \* parse_time: the argument
    time_out,       \* parse_time(time_arg)
    tstage,         \* "input", "parsed"
    conv_hour,      \* _convert_24h_to_12h: the argument hour
    conv_minute,    \* _convert_24h_to_12h: the argument minute
    conv_out,       \* _convert_24h_to_12h(conv_hour, conv_minute)
    cstage          \* "input", "converted"

vars == <<events, unique, again, dstage, ev1, ev2, hash1, hash2, hstage,
          now, rec, out, called_at, ostage, raw, ni, normalized_events, nstage,
          pc, config_file, sites, si, attempt, all_events, stats, original_count,
          exit_code, calls, sleeps, hist, log, sink, exported, report,
          interrupted, time_arg, time_out, tstage, conv_hour, conv_minute,
          conv_out, cstage>>

dedupVars == <<events, unique, again, dstage>>
hashVars == <<ev1, ev2, hash1, hash2, hstage>>
oneVars == <<rec, out, called_at, ostage>>
batchVars == <<raw, ni, normalized_events, nstage>>
runVars == <<pc, config_file, sites, si, attempt, all_events, stats, original_count,
             exit_code, calls, sleeps, hist, log, sink, exported, report,
             interrupted>>
textVars == <<time_arg, time_out, tstage>>
convVars == <<conv_hour, conv_minute, conv_out, cstage>>
timeVars == <<textVars, convVars>>

(***************************************************************************)
(* Bounds of the model.                                                    *)
(***************************************************************************)
MaxEvents == 3      \* longest list given to deduplicate_events
MaxTitleLen == 2    \* longest title given to create_event_hash
MaxRecords == 3     \* longest list given to normalize_events
MaxClock == 2       \* last tick of the wall clock
MaxSites == 3       \* most entries of the sites list of the configuration
MaxHour == 24       \* largest hour given to _convert_24h_to_12h
MaxMinute == 60     \* largest minute given to _convert_24h_to_12h

(***************************************************************************)
(* Python str methods used by the code.                                    *)
(***************************************************************************)
Whitespace == {" "}

\* the cased letters of the model's alphabet, <<upper, lower>>
CasePairs ==
    {<<"A", "a">>, <<"B", "b">>, <<"D", "d">>, <<"H", "h">>, <<"L", "l">>,
     <<"M", "m">>, <<"P", "p">>, <<"T", "t">>, <<"X", "x">>, <<"Y", "y">>}

LowerChar(c) ==
    IF \E p \in CasePairs : p[1] = c
    THEN (CHOOSE p \in CasePairs : p[1] = c)[2]
    ELSE c

UpperChar(c) ==
    IF \E p \in CasePairs : p[2] = c
    THEN (CHOOSE p \in CasePairs : p[2] = c)[1]
    ELSE c

\* str.upper()
Upper(s) == [i \in 1..Len(s) |-> UpperChar(s[i])]

\* str.lower()
Lower(s) == [i \in 1..Len(s) |-> LowerChar(s[i])]

RECURSIVE LStrip(_)
LStrip(s) ==
    IF s # <<>> /\ Head(s) \in Whitespace THEN LStrip(Tail(s)) ELSE s

RECURSIVE RStrip(_)
RStrip(s) ==
    IF s # <<>> /\ s[Len(s)] \in Whitespace
    THEN RStrip(SubSeq(s, 1, Len(s) - 1))
    ELSE s

\* str.strip()
Strip(s) == RStrip(LStrip(s))

\* dict.get(key, default)
Get(d, key, default) == IF key \in DOMAIN d THEN d[key] ELSE default

\* all strings over alphabet of length at most n
Strings(alphabet, n) == UNION {[1..k -> alphabet] : k \in 0..n}


(***************************************************************************)
(* Python values other than str.  A str is a sequence of characters; None  *)
(* and an int are sequences that start with a type tag, which is no        *)
(* character.                                                              *)
(***************************************************************************)
TypeTags == {"NoneType", "int"}

PyNone == <<"NoneType">>

\* the int written with the decimal digits ds
PyInt(ds) == <<"int">> \o ds

\* isinstance(v, str)
IsStr(v) == v = <<>> \/ v[1] \notin TypeTags

\* bool(v)
Truthy(v) ==
    IF IsStr(v) THEN v # <<>>
    ELSE IF v = PyNone THEN FALSE
    ELSE Tail(v) # <<"0">>

\* str(v)
PyStr(v) ==
    IF IsStr(v) THEN v
    ELSE IF v = PyNone THEN <<"N", "o", "n", "e">>
    ELSE Tail(v)

\* d[key] = value
Put(d, key, value) ==
    [k \in DOMAIN d \cup {key} |-> IF k = key THEN value ELSE d[k]]

Digits == <<"0", "1", "2", "3", "4", "5", "6", "7", "8", "9">>

IsDigit(c) == \E i \in 1..10 : Digits[i] = c

DigitValue(c) == (CHOOSE i \in 1..10 : Digits[i] = c) - 1

\* int(s) of a string of decimal digits
RECURSIVE ParseInt(_)
ParseInt(s) ==
    IF s = <<>> THEN 0
    ELSE 10 * ParseInt(SubSeq(s, 1, Len(s) - 1)) + DigitValue(s[Len(s)])

\* the decimal digits of n >= 0
RECURSIVE Decimal(_)
Decimal(n) ==
    IF n < 10 THEN <<Digits[n + 1]>>
    ELSE Decimal(n \div 10) \o <<Digits[(n % 10) + 1]>>

\* n >= 0 zero-padded to at least width digits: f"{n:02d}", %Y, %m, %d, %I, %M
RECURSIVE ZeroPad(_, _)
ZeroPad(ds, width) ==
    IF Len(ds) >= width THEN ds ELSE ZeroPad(<<"0">> \o ds, width)

Format(n, width) == ZeroPad(Decimal(n), width)

(***************************************************************************)
(* date_parser.py                                                          *)
(***************************************************************************)

\* the date of the run, which dateutil fills in for a text that names none
Today == [year |-> 2026, month |-> 11, day |-> 6]

DateTime(y, mo, d, h, mi) ==
    [ok |-> TRUE, year |-> y, month |-> mo, day |-> d, hour |-> h, minute |-> mi]

ParserError == [ok |-> FALSE]

\* the texts of the model in which dateutil finds no date or time, or an
\* hour beyond 23: it raises ParserError
DateutilRejects == {<<>>, <<"t", "b", "d">>, <<"2", "5", ":", "3", "0">>, <<"g", "i", "b", "b", "e", "r", "i", "s", "h", "#", "#">>}

\* the number of digits of the hour of a clock text
ClockHourLen(text) == IF Len(text) >= 2 /\ text[2] = ":" THEN 1 ELSE 2

\* what follows the minute of a clock text, without blanks and in lower case
ClockSuffix(text) ==
    LET rest == SubSeq(text, ClockHourLen(text) + 4, Len(text))
        IsBlankChar(c) == c \in {" ", "\t", "\n", "\r"}
    IN  [i \in 1..Len(SelectSeq(rest, LAMBDA c : ~IsBlankChar(c))) |->
            LET c == SelectSeq(rest, LAMBDA d : ~IsBlankChar(d))[i]
            IN  CASE c = "A" -> "a" [] c = "P" -> "p" [] c = "M" -> "m" [] OTHER -> c]

\* text is H:MM or HH:MM, alone or followed by am or pm
IsClockText(text) ==
    LET n == ClockHourLen(text)
    IN  /\ Len(text) >= n + 3
        /\ \A i \in 1..n : text[i] \in {"0", "1", "2", "3", "4", "5", "6", "7", "8", "9"}
        /\ text[n + 1] = ":"
        /\ \A i \in (n + 2)..(n + 3) : text[i] \in {"0", "1", "2", "3", "4", "5", "6", "7", "8", "9"}
        /\ ClockSuffix(text) \in {<<>>, <<"a", "m">>, <<"p", "m">>}

\* dateutil on a clock text: a minute above 59 or an hour above 23 makes
\* datetime raise; am and pm shift the hours 1..12 (am or pm after another
\* hour is not tabulated)
dateutil_clock(text) ==
    LET n == ClockHourLen(text)
        h == 10 * (IF n = 2 THEN (CHOOSE d \in 0..9 : ToString(d) = text[1]) ELSE 0)
                 + (CHOOSE d \in 0..9 : ToString(d) = text[n])
        mi == 10 * (CHOOSE d \in 0..9 : ToString(d) = text[n + 2])
                 + (CHOOSE d \in 0..9 : ToString(d) = text[n + 3])
        suffix == ClockSuffix(text)
    IN  CASE mi > 59 \/ h > 23 -> ParserError
          [] mi <= 59 /\ h <= 23 /\ suffix = <<>> ->
                 [ok |-> TRUE, year |-> Today.year, month |-> Today.month, day |-> Today.day, hour |-> h, minute |-> mi]
          [] mi <= 59 /\ h \in 1..12 /\ suffix = <<"p", "m">> ->
                 [ok |-> TRUE, year |-> Today.year, month |-> Today.month, day |-> Today.day, hour |-> IF h = 12 THEN 12 ELSE h + 12, minute |-> mi]
          [] mi <= 59 /\ h \in 1..12 /\ suffix = <<"a", "m">> ->
                 [ok |-> TRUE, year |-> Today.year, month |-> Today.month, day |-> Today.day, hour |-> IF h = 12 THEN 0 ELSE h, minute |-> mi]

\* dateutil_parser.parse(text, fuzzy=True) on the texts the model draws
\* (the library is not part of the repository; its results are tabulated)
dateutil_parse(text) ==
    CASE text \in {<<"2", "0", "2", "5", "-", "0", "7", "-", "1", "5">>,
                   <<"7", "/", "1", "5", "/", "2", "0", "2", "5">>,
                   <<"2", "0", "2", "5", "0", "7", "1", "5">>} -> DateTime(2025, 7, 15, 0, 0)
      [] text = <<"2", ":", "3", "0", "p", "m">> -> DateTime(Today.year, Today.month, Today.day, 14, 30)
      [] text \in DateutilRejects -> ParserError
      [] IsClockText(text) -> dateutil_clock(text)

\* dt.strftime('%Y-%m-%d')
strftime_date(dt) ==
    Format(dt.year, 4) \o <<"-">> \o Format(dt.month, 2) \o <<"-">> \o Format(dt.day, 2)

\* dt.strftime('%I:%M %p')
strftime_time(dt) ==
    LET hour_12 == IF dt.hour % 12 = 0 THEN 12 ELSE dt.hour % 12
    IN  Format(hour_12, 2) \o <<":">> \o Format(dt.minute, 2)
            \o <<" ">> \o (IF dt.hour < 12 THEN <<"A", "M">> ELSE <<"P", "M">>)

parse_date(date_string) ==
    IF ~Truthy(date_string) \/ ~IsStr(date_string) THEN <<>>
    ELSE LET dt == dateutil_parse(Strip(date_string))
         IN  IF dt.ok THEN strftime_date(dt) ELSE <<>>

\* _convert_24h_to_12h, were noon still counted as morning
_convert_24h_to_12h_noon_am(hour, minute) ==
    LET period == IF hour <= 12 THEN <<"A", "M">> ELSE <<"P", "M">>
        hour_12 == IF hour % 12 = 0 THEN 12 ELSE hour % 12
    IN  Format(hour_12, 2) \o <<":">> \o Format(minute, 2) \o <<" ">> \o period


_convert_24h_to_12h(hour, minute) ==
    LET period == IF hour < 12 THEN <<"A", "M">> ELSE <<"P", "M">>
        hour_12 == IF hour % 12 = 0 THEN 12 ELSE hour % 12
    IN  Format(hour_12, 2) \o <<":">> \o Format(minute, 2) \o <<" ">> \o period

\* the character at position i, or "" past the end
At(s, i) == IF i \in 1..Len(s) THEN s[i] ELSE ""

DigitsAt(s, i, n) == \A k \in 0..(n - 1) : IsDigit(At(s, i + k))

\* the position after the blanks that start at i
RECURSIVE SkipBlanks(_, _)
SkipBlanks(s, i) == IF At(s, i) \in Whitespace THEN SkipBlanks(s, i + 1) ELSE i

\* \s*([ap]m) matches at i, ignoring case
AmPmAt(s, i) ==
    LET j == SkipBlanks(s, i)
    IN  At(s, j) \in {"a", "p", "A", "P"} /\ At(s, j + 1) \in {"m", "M"}

AmPmText(s, i) ==
    LET j == SkipBlanks(s, i) IN Upper(SubSeq(s, j, j + 1))

\* (\d{1,2}):(\d{2})\s*([ap]m) matches at i with an hour of n digits
ClockAmPmAt(s, i, n) ==
    /\ DigitsAt(s, i, n)
    /\ At(s, i + n) = ":"
    /\ DigitsAt(s, i + n + 1, 2)
    /\ AmPmAt(s, i + n + 3)

\* (\d{1,2})\s*([ap]m) matches at i with an hour of n digits
HourAmPmAt(s, i, n) == DigitsAt(s, i, n) /\ AmPmAt(s, i + n)

\* (\d{1,2}):(\d{2})(?!\s*[ap]m) matches at i with an hour of n digits
ClockAt(s, i, n) ==
    /\ DigitsAt(s, i, n)
    /\ At(s, i + n) = ":"
    /\ DigitsAt(s, i + n + 1, 2)
    /\ ~AmPmAt(s, i + n + 3)

\* patterns[k] matches at i with an hour of n digits
MatchesAt(k, s, i, n) ==
    CASE k = 0 -> ClockAmPmAt(s, i, n)
      [] k = 1 -> HourAmPmAt(s, i, n)
      [] k = 2 -> ClockAt(s, i, n)

\* re.search(patterns[k], s): the leftmost start, the greedy hour first;
\* <<0, 0>> is no match
Search(k, s) ==
    IF \E i \in 1..Len(s) : MatchesAt(k, s, i, 2) \/ MatchesAt(k, s, i, 1)
    THEN LET i == CHOOSE i \in 1..Len(s) :
                      /\ MatchesAt(k, s, i, 2) \/ MatchesAt(k, s, i, 1)
                      /\ \A j \in 1..(i - 1) :
                             ~MatchesAt(k, s, j, 2) /\ ~MatchesAt(k, s, j, 1)
         IN  <<i, IF MatchesAt(k, s, i, 2) THEN 2 ELSE 1>>
    ELSE <<0, 0>>

\* time_fallback, were a text that no pattern matches given up as empty
time_fallback_empty(time_string) ==
    LET m1 == Search(0, time_string)
        m2 == Search(1, time_string)
        m3 == Search(2, time_string)
        hour(m) == ParseInt(SubSeq(time_string, m[1], m[1] + m[2] - 1))
        minute(m) == SubSeq(time_string, m[1] + m[2] + 1, m[1] + m[2] + 2)
    IN  IF m1[1] # 0
        THEN Format(hour(m1), 2) \o <<":">> \o minute(m1) \o <<" ">>
                \o AmPmText(time_string, m1[1] + m1[2] + 3)
        ELSE IF m2[1] # 0
        THEN Format(hour(m2), 2) \o <<":", "0", "0", " ">>
                \o AmPmText(time_string, m2[1] + m2[2])
        ELSE IF m3[1] # 0
        THEN _convert_24h_to_12h(hour(m3), ParseInt(minute(m3)))
        ELSE <<>>


\* the except branch of parse_time: the three patterns in order, else the text
time_fallback(time_string) ==
    LET m1 == Search(0, time_string)
        m2 == Search(1, time_string)
        m3 == Search(2, time_string)
        hour(m) == ParseInt(SubSeq(time_string, m[1], m[1] + m[2] - 1))
        minute(m) == SubSeq(time_string, m[1] + m[2] + 1, m[1] + m[2] + 2)
    IN  IF m1[1] # 0
        THEN Format(hour(m1), 2) \o <<":">> \o minute(m1) \o <<" ">>
                \o AmPmText(time_string, m1[1] + m1[2] + 3)
        ELSE IF m2[1] # 0
        THEN Format(hour(m2), 2) \o <<":", "0", "0", " ">>
                \o AmPmText(time_string, m2[1] + m2[2])
        ELSE IF m3[1] # 0
        THEN _convert_24h_to_12h(hour(m3), ParseInt(minute(m3)))
        ELSE time_string

AllDayTexts == {<<"a", "l", "l", " ", "d", "a", "y">>, <<"a", "l", "l", "-", "d", "a", "y">>, <<"a", "l", "l", "d", "a", "y">>}

parse_time(time_string) ==
    IF ~Truthy(time_string) \/ ~IsStr(time_string) THEN <<>>
    ELSE LET stripped == Strip(time_string)
         IN  IF Lower(stripped) \in AllDayTexts THEN <<"A", "l", "l", " ", "D", "a", "y">>
             ELSE LET dt == dateutil_parse(stripped)
                  IN  IF dt.ok THEN strftime_time(dt) ELSE time_fallback(stripped)

(***************************************************************************)
(* normalizer.py                                                           *)
(***************************************************************************)
text_fields ==
    {"title", "description", "location", "registration_url", "image_url",
     "target_age", "event_url", "source_organization"}

\* datetime.now().isoformat() at tick t
isoformat(t) == <<"T">> \o Decimal(t)

\* return None
NoEvent == [NoneType |-> TRUE]

IsNoEvent(r) == DOMAIN r = {"NoneType"}

\* a loop that cleans values without trimming them
clean_text_fields_untrimmed(normalized) ==
    [k \in DOMAIN normalized \cup text_fields |->
        IF k \in text_fields
        THEN LET value == Get(normalized, k, <<>>)
             IN  IF Truthy(value) /\ IsStr(value) THEN value ELSE <<>>
        ELSE normalized[k]]

\* a loop that starts from an empty dict instead of a copy of the record
clean_text_fields_fresh(normalized) ==
    [k \in (DOMAIN normalized \cap {"when_date", "when_time", "scraped_at"})
            \cup text_fields |->
        IF k \in text_fields
        THEN LET value == Get(normalized, k, <<>>)
             IN  IF Truthy(value) /\ IsStr(value) THEN Strip(value) ELSE <<>>
        ELSE normalized[k]]

\* the for loop over text_fields
clean_text_fields(normalized) ==
    [k \in DOMAIN normalized \cup text_fields |->
        IF k \in text_fields
        THEN LET value == Get(normalized, k, <<>>)
             IN  IF Truthy(value) /\ IsStr(value) THEN Strip(value) ELSE <<>>
        ELSE normalized[k]]

normalize_date(normalized) ==
    LET date_value == Get(normalized, "when_date", <<>>)
    IN  Put(normalized, "when_date",
            IF Truthy(date_value) THEN parse_date(PyStr(date_value)) ELSE <<>>)

normalize_time(normalized) ==
    LET time_value == Get(normalized, "when_time", <<>>)
    IN  Put(normalized, "when_time",
            IF Truthy(time_value) THEN parse_time(PyStr(time_value)) ELSE <<>>)

\* a timestamp step that overwrites whatever the record carries
ensure_scraped_at_always(normalized, t) == Put(normalized, "scraped_at", isoformat(t))

ensure_scraped_at(normalized, t) ==
    IF "scraped_at" \notin DOMAIN normalized \/ ~Truthy(normalized["scraped_at"])
    THEN Put(normalized, "scraped_at", isoformat(t))
    ELSE normalized

\* a required-field check that rejects a missing date too, as validate_event does
validate_required_strict(normalized) ==
    IF ~Truthy(Get(normalized, "title", <<>>)) \/ ~Truthy(Get(normalized, "when_date", <<>>))
    THEN NoEvent ELSE normalized

\* the required-field check: only a missing title rejects
validate_required(normalized) ==
    IF ~Truthy(Get(normalized, "title", <<>>)) THEN NoEvent ELSE normalized

\* normalize_event(event) run at tick t.  No statement of the try block
\* raises for a mapping whose values are str, None or int, so the except
\* branch is not taken.
normalize_event(event, t) ==
    validate_required(
        ensure_scraped_at(normalize_time(normalize_date(clean_text_fields(event))), t))

\* the for loop of normalize_events from record i on; acc is normalized_events
RECURSIVE NormalizeLoop(_, _, _, _)
NormalizeLoop(records, t, i, acc) ==
    IF i > Len(records) THEN acc
    ELSE LET normalized == normalize_event(records[i], t)
         IN  NormalizeLoop(records, t, i + 1,
                 IF ~IsNoEvent(normalized) /\ DOMAIN normalized # {}
                 THEN Append(acc, normalized) ELSE acc)

\* normalize_events(events) run at tick t
normalize_events(records, t) == NormalizeLoop(records, t, 1, <<>>)

(***************************************************************************)
(* deduplicator.py                                                         *)
(***************************************************************************)

\* a key string that strips the key fields but keeps their letter case
unique_string_cased(event) ==
    LET title == Strip(Get(event, "title", <<>>))
        date == Strip(Get(event, "when_date", <<>>))
        location == Strip(Get(event, "location", <<>>))
    IN  title \o <<"|">> \o date \o <<"|">> \o location

\* f"{title}|{date}|{location}" of the stripped, lowercased key fields
unique_string(event) ==
    LET title == Lower(Strip(Get(event, "title", <<>>)))
        date == Lower(Strip(Get(event, "when_date", <<>>)))
        location == Lower(Strip(Get(event, "location", <<>>)))
    IN  title \o <<"|">> \o date \o <<"|">> \o location

\* hashlib.sha256(...).hexdigest(): the digest is a function of the bytes
\* hashed and of nothing else; distinct byte strings get distinct digests
\* (collision resistance is assumed, the 64 hex digits are not computed).
sha256_hexdigest(s) == <<"sha256", s>>

create_event_hash(event) == sha256_hexdigest(unique_string(event))

\* a loop body that lets the latest occurrence replace the one kept
DedupLastWins(st, event) ==
    LET event_hash == create_event_hash(event)
        kept == st.unique_events
    IN  IF event_hash \notin st.seen_hashes
        THEN [st EXCEPT !.seen_hashes = @ \cup {event_hash},
                        !.unique_events = Append(@, event)]
        ELSE [st EXCEPT !.duplicate_count = @ + 1,
                        !.unique_events =
                            [k \in 1..Len(kept) |->
                                IF create_event_hash(kept[k]) = event_hash
                                THEN event ELSE kept[k]]]

\* a loop body that forgets to record the hash of a kept event
DedupNoRecord(st, event) ==
    LET event_hash == create_event_hash(event)
    IN  IF event_hash \notin st.seen_hashes
        THEN [st EXCEPT !.unique_events = Append(@, event)]
        ELSE [st EXCEPT !.duplicate_count = @ + 1]

\* a loop body that inserts a kept event at the front of the list
DedupPrepend(st, event) ==
    LET event_hash == create_event_hash(event)
    IN  IF event_hash \notin st.seen_hashes
        THEN [st EXCEPT !.seen_hashes = @ \cup {event_hash},
                        !.unique_events = <<event>> \o @]
        ELSE [st EXCEPT !.duplicate_count = @ + 1]

\* one iteration of the for loop; st is the loop's local state
DedupIteration(st, event) ==
    LET event_hash == create_event_hash(event)
    IN  IF event_hash \notin st.seen_hashes
        THEN [st EXCEPT !.seen_hashes = @ \cup {event_hash},
                        !.unique_events = Append(@, event)]
        ELSE [st EXCEPT !.duplicate_count = @ + 1]

RECURSIVE DedupLoop(_, _, _)
DedupLoop(st, evs, i) ==
    IF i > Len(evs) THEN st
    ELSE DedupLoop(DedupIteration(st, evs[i]), evs, i + 1)

DedupLocals(evs) ==
    DedupLoop([seen_hashes |-> {}, unique_events |-> <<>>, duplicate_count |-> 0],
              evs, 1)

deduplicate_events(evs) == DedupLocals(evs).unique_events

(***************************************************************************)
(* Inputs of deduplicate_events: events that share or differ in the key    *)
(* fields up to case and surrounding blanks, with a short or a longer      *)
(* description, the location key present or absent.                         *)
(***************************************************************************)
DedupTitles == {<<"x">>, <<"X", " ">>}
DedupDates == {<<>>, <<"d">>}
DedupLocations == {<<"h">>}
DedupDescriptions == {<<"s">>, <<"l", "g">>}

DedupEvents ==
    [title : DedupTitles, when_date : DedupDates, description : DedupDescriptions]
    \cup [title : DedupTitles, when_date : DedupDates, location : DedupLocations,
          description : DedupDescriptions]

Lists(S, n) == UNION {[1..k -> S] : k \in 0..n}

InitDedup ==
    /\ events \in Lists(DedupEvents, MaxEvents)
    /\ unique = <<>>
    /\ again = <<>>
    /\ dstage = "input"

\* unique = deduplicate_events(events)
Deduplicate ==
    /\ dstage = "input"
    /\ unique' = deduplicate_events(events)
    /\ dstage' = "once"
    /\ UNCHANGED <<events, again>>

\* again = deduplicate_events(unique)
DeduplicateAgain ==
    /\ dstage = "once"
    /\ again' = deduplicate_events(unique)
    /\ dstage' = "twice"
    /\ UNCHANGED <<events, unique>>

(***************************************************************************)
(* Inputs of create_event_hash.                                            *)
(***************************************************************************)
HashAlphabet == {"x", "X", " "}
HashTitles == Strings(HashAlphabet, MaxTitleLen) \cup {<<"|">>}
HashDates == {<<>>, <<"D">>, <<" ", "d">>}
HashLocations == {<<"|">>, <<"h">>, <<"H", " ">>}
HashDescriptions == {<<"s">>}

\* the first event has no description, the second one has
HashEvents1 ==
    [title : HashTitles, when_date : HashDates]
    \cup [title : HashTitles, when_date : HashDates, location : HashLocations]

HashEvents2 ==
    [title : HashTitles, when_date : HashDates, description : HashDescriptions]
    \cup [title : HashTitles, when_date : HashDates, location : HashLocations,
          description : HashDescriptions]

HashIdle ==
    /\ ev1 = <<>> /\ ev2 = <<>> /\ hash1 = <<>> /\ hash2 = <<>>
    /\ hstage = "idle"

DedupIdle ==
    /\ events = <<>> /\ unique = <<>> /\ again = <<>>
    /\ dstage = "idle"

InitHash ==
    /\ ev1 \in HashEvents1
    /\ ev2 \in HashEvents2
    /\ hash1 = <<>>
    /\ hash2 = <<>>
    /\ hstage = "input"

\* hash1, hash2 = create_event_hash(ev1), create_event_hash(ev2)
Hash ==
    /\ hstage = "input"
    /\ hash1' = create_event_hash(ev1)
    /\ hash2' = create_event_hash(ev2)
    /\ hstage' = "hashed"
    /\ UNCHANGED <<ev1, ev2>>

(***************************************************************************)
(* Inputs of normalize_event and normalize_events.  A record is built from *)
(* one choice per key; the choice Absent leaves the key out.               *)
(***************************************************************************)
Absent == <<"(absent)">>

Present(choice) ==
    [k \in {k \in DOMAIN choice : choice[k] # Absent} |-> choice[k]]

TitleChoices == {Absent, <<>>, <<" ">>, <<" ", "x", " ">>, PyNone, PyInt(<<"7">>)}
DateChoices ==
    {Absent, <<>>, <<" ">>, PyNone, <<"t", "b", "d">>, <<"2", "0", "2", "5", "-", "0", "7", "-", "1", "5">>,
     <<" ", "7", "/", "1", "5", "/", "2", "0", "2", "5">>, PyInt(<<"2", "0", "2", "5", "0", "7", "1", "5">>)}
TimeChoices ==
    {Absent, <<>>, <<" ", "A", "l", "l", " ", "D", "a", "y">>, <<"2", ":", "3", "0", "p", "m">>, <<"t", "b", "d">>, <<"2", "5", ":", "3", "0">>}
ScrapedAtChoices == {Absent, <<>>, PyNone, <<" ">>, <<"T", "0">>}
LocationChoices == {Absent, <<" ", "h">>, PyNone}
PriceChoices == {Absent, <<"9">>}

\* "price" stands for any key that is no Event field
Records ==
    {Present(c) : c \in [title : TitleChoices, when_date : DateChoices,
                         when_time : TimeChoices, scraped_at : ScrapedAtChoices,
                         location : LocationChoices, price : PriceChoices]}

BatchRecords ==
    {Present(c) : c \in [title : {Absent, <<" ">>, <<"x", " ">>, PyInt(<<"7">>)},
                         when_date : {<<>>, <<"t", "b", "d">>, <<"2", "0", "2", "5", "-", "0", "7", "-", "1", "5">>}]}

ClockInit == now = 1

\* time passes
Tick ==
    /\ now < MaxClock
    /\ now' = now + 1

InitOne ==
    /\ rec \in Records
    /\ out = NoEvent
    /\ called_at = 0
    /\ ostage = "input"

OneIdle ==
    /\ rec = NoEvent /\ out = NoEvent /\ called_at = 0
    /\ ostage = "idle"

\* out = normalize_event(rec)
NormalizeEvent ==
    /\ ostage = "input"
    /\ out' = normalize_event(rec, now)
    /\ called_at' = now
    /\ ostage' = "normalized"
    /\ UNCHANGED rec

InitBatch ==
    /\ raw \in Lists(BatchRecords, MaxRecords)
    /\ ni = 0
    /\ normalized_events = <<>>
    /\ nstage = "loop"

BatchIdle ==
    /\ raw = <<>> /\ ni = 0 /\ normalized_events = <<>>
    /\ nstage = "idle"

\* one iteration of the loop of normalize_events: normalize_event returned a dict
NormalizeKeep ==
    /\ nstage = "loop"
    /\ ni < Len(raw)
    /\ LET normalized == normalize_event(raw[ni + 1], now)
       IN  /\ ~IsNoEvent(normalized) /\ DOMAIN normalized # {}
           /\ normalized_events' = Append(normalized_events, normalized)
    /\ ni' = ni + 1
    /\ UNCHANGED <<raw, nstage>>

\* one iteration of the loop of normalize_events: normalize_event returned None
NormalizeDiscard ==
    /\ nstage = "loop"
    /\ ni < Len(raw)
    /\ LET normalized == normalize_event(raw[ni + 1], now)
       IN  IsNoEvent(normalized) \/ DOMAIN normalized = {}
    /\ ni' = ni + 1
    /\ UNCHANGED <<raw, normalized_events, nstage>>

\* return normalized_events
NormalizeReturn ==
    /\ nstage = "loop"
    /\ ni = Len(raw)
    /\ nstage' = "returned"
    /\ UNCHANGED <<raw, ni, normalized_events>>

(***************************************************************************)
(* base_scraper.py and main.py: the orchestrator and its scrapers.         *)
(***************************************************************************)

\* scrape_with_retry(self, max_retries: int = 1, ...)
max_retries == 1

\* BaseScraper.create_event_dict, called by the scraper named name at tick t
create_event_dict(name, title, description, when_date, when_time, location, registration_url, image_url, target_age, event_url, t) ==
    [title |-> IF Truthy(title) THEN Strip(title) ELSE <<>>,
     description |-> IF Truthy(description) THEN Strip(description) ELSE <<>>,
     when_date |-> IF Truthy(when_date) THEN Strip(when_date) ELSE <<>>,
     when_time |-> IF Truthy(when_time) THEN Strip(when_time) ELSE <<>>,
     location |-> IF Truthy(location) THEN Strip(location) ELSE <<>>,
     registration_url |-> IF Truthy(registration_url) THEN Strip(registration_url) ELSE <<>>,
     image_url |-> IF Truthy(image_url) THEN Strip(image_url) ELSE <<>>,
     target_age |-> IF Truthy(target_age) THEN Strip(target_age) ELSE <<>>,
     event_url |-> IF Truthy(event_url) THEN Strip(event_url) ELSE <<>>,
     source_organization |-> name,
     scraped_at |-> isoformat(t)]

\* EventScraperOrchestrator.SCRAPER_MAP: the methods that have a scraper class
SCRAPER_MAP == {"ical", "json", "html", "playwright", "vision"}

\* the classes whose constructor can raise: VisionScraper without its API key
ConstructorCanRaise == {"vision"}

Unknown == <<"U", "n", "k", "n", "o", "w", "n">>

\* site_config.get('name', 'Unknown')
site_name(site_config) == Get(site_config, "name", Unknown)

\* site_config.get('method', '')
site_method(site_config) == Get(site_config, "method", "")

\* what is published at the url of a site: the titles of its events, as found
Published(url) ==
    CASE url = "a" -> <<<<"x">>, <<"X", " ">>, <<" ">>>>
      [] url = "b" -> <<<<"y">>, <<" ", "x">>>>
      [] url = "c" -> <<>>

\* scraper.scrape() when it returns: one event per published title
scrape(site_config, t) ==
    LET titles == Published(site_config["url"])
    IN  [i \in 1..Len(titles) |->
            create_event_dict(site_name(site_config), titles[i], <<>>, <<"2", "0", "2", "5", "-", "0", "7", "-", "1", "5">>,
                              <<>>, <<>>, <<>>, <<>>, <<>>, <<site_config["url"]>>, t)]

\* the entries a sites list is made of
SiteConfigs ==
    {[name |-> <<"A">>, method |-> "html", url |-> "a"],
     [method |-> "vision", url |-> "b", enabled |-> TRUE],
     [name |-> <<"B">>, method |-> "ical", url |-> "c"],
     [name |-> <<"B">>, method |-> "rss", url |-> "b"],
     [name |-> <<"B">>, url |-> "a"],
     [name |-> <<"C">>, method |-> "json", url |-> "b", enabled |-> FALSE]}

\* what config/sites.yaml can hold: nothing, no YAML, YAML that is no mapping,
\* a mapping whose sites are no list of mappings, a mapping without sites, a
\* mapping with a sites list
ConfigFiles ==
    {[kind |-> "missing"], [kind |-> "invalid_yaml"], [kind |-> "not_mapping"],
     [kind |-> "bad_sites"], [kind |-> "mapping"]}
    \cup {[kind |-> "mapping", sites |-> l] : l \in Lists(SiteConfigs, MaxSites)}

\* EnabledSites, were the filter left out
EnabledSitesAll(l) == l


\* [s for s in self.sites if s.get('enabled', True)]
RECURSIVE EnabledSites(_)
EnabledSites(l) ==
    IF l = <<>> THEN <<>>
    ELSE IF Get(Head(l), "enabled", TRUE)
         THEN <<Head(l)>> \o EnabledSites(Tail(l))
         ELSE EnabledSites(Tail(l))

\* self.stats as __init__ sets it
InitialStats ==
    [total_events |-> 0, unique_events |-> 0, duplicates_removed |-> 0,
     successful_sites |-> 0, failed_sites |-> 0, sources |-> <<>>]

\* the process before EventScraperOrchestrator() is constructed
InitRun ==
    /\ pc = "load"
    /\ config_file \in ConfigFiles
    /\ sites = <<>>
    /\ si = 0
    /\ attempt = 0
    /\ all_events = <<>>
    /\ stats = InitialStats
    /\ original_count = 0
    /\ exit_code = 0
    /\ calls = 0
    /\ sleeps = 0
    /\ hist = <<>>
    /\ log = <<>>
    /\ sink = <<>>
    /\ exported = "none"
    /\ report = [status |-> "none"]
    /\ interrupted = FALSE

\* the orchestrator is not part of the run
RunIdle ==
    /\ pc = "idle"
    /\ config_file = [kind |-> "missing"]
    /\ sites = <<>>
    /\ si = 0
    /\ attempt = 0
    /\ all_events = <<>>
    /\ stats = InitialStats
    /\ original_count = 0
    /\ exit_code = 0
    /\ calls = 0
    /\ sleeps = 0
    /\ hist = <<>>
    /\ log = <<>>
    /\ sink = <<>>
    /\ exported = "none"
    /\ report = [status |-> "none"]
    /\ interrupted = FALSE


\* _load_config returns: the file holds a mapping; run() is entered
LoadConfigOk ==
    /\ pc = "load"
    /\ config_file.kind = "mapping"
    /\ sites' = EnabledSites(Get(config_file, "sites", <<>>))
    /\ pc' = "loop"
    /\ log' = Append(log, "scrape")
    /\ UNCHANGED <<config_file, si, attempt, all_events, stats, original_count,
                   exit_code, calls, sleeps, hist, sink, exported, report>>
    /\ UNCHANGED interrupted

\* LoadConfigFail, were a configuration that cannot be loaded taken as empty
LoadConfigFailContinues ==
    /\ pc = "load"
    /\ config_file.kind # "mapping"
    /\ sites' = <<>>
    /\ pc' = "loop"
    /\ log' = Append(log, "scrape")
    /\ UNCHANGED <<config_file, si, attempt, all_events, stats, original_count,
                   exit_code, calls, sleeps, hist, sink, exported, report>>
    /\ UNCHANGED interrupted


\* _load_config raises inside its try: except Exception, sys.exit(1)
LoadConfigFail ==
    /\ pc = "load"
    /\ config_file.kind # "mapping"
    /\ exit_code' = 1
    /\ pc' = "exited"
    /\ UNCHANGED <<config_file, sites, si, attempt, all_events, stats,
                   original_count, calls, sleeps, hist, log, sink, exported, report>>
    /\ UNCHANGED interrupted

\* the site the for loop of _scrape_all_sites is at
site_config == sites[si + 1]

\* CountFailed, were the failure of a source only logged
CountNothing == UNCHANGED stats


\* self.stats['failed_sites'] += 1
CountFailed == stats' = [stats EXCEPT !.failed_sites = @ + 1]

\* the for loop moves on: the source ended as kind after the calls made for it
NextSite(kind, constructed, ncalls) ==
    /\ si' = si + 1
    /\ pc' = "loop"
    /\ hist' = Append(hist, [kind |-> kind, constructed |-> constructed,
                             calls |-> ncalls,
                             sleeps |-> IF constructed THEN sleeps ELSE 0])

\* SourceUnknownMethod, were a scraper built and run for any method
SourceUnknownMethodScraped ==
    /\ pc = "loop"
    /\ si < Len(sites)
    /\ site_method(site_config) \notin SCRAPER_MAP
    /\ pc' = "attempt"
    /\ attempt' = 0
    /\ calls' = 0
    /\ sleeps' = 0
    /\ UNCHANGED <<config_file, sites, si, all_events, stats, original_count,
                   exit_code, hist, log, sink, exported, report>>
    /\ UNCHANGED interrupted


\* if not scraper_class: failed_sites += 1; continue
SourceUnknownMethod ==
    /\ pc = "loop"
    /\ si < Len(sites)
    /\ site_method(site_config) \notin SCRAPER_MAP
    /\ CountFailed
    /\ NextSite("unknown", FALSE, 0)
    /\ UNCHANGED <<config_file, sites, attempt, all_events, original_count,
                   exit_code, calls, sleeps, log, sink, exported, report>>
    /\ UNCHANGED interrupted

\* SourceConstructFails, were a raising constructor retried after a delay
SourceConstructFailsRetried ==
    /\ pc = "loop"
    /\ si < Len(sites)
    /\ site_method(site_config) \in SCRAPER_MAP \cap ConstructorCanRaise
    /\ pc' = "sleep"
    /\ attempt' = 0
    /\ calls' = 0
    /\ sleeps' = 0
    /\ UNCHANGED <<config_file, sites, si, all_events, stats, original_count,
                   exit_code, hist, log, sink, exported, report>>
    /\ UNCHANGED interrupted


\* scraper_class(site_config) raises: except Exception, failed_sites += 1
SourceConstructFails ==
    /\ pc = "loop"
    /\ si < Len(sites)
    /\ site_method(site_config) \in SCRAPER_MAP \cap ConstructorCanRaise
    /\ CountFailed
    /\ NextSite("constructor", FALSE, 0)
    /\ UNCHANGED <<config_file, sites, attempt, all_events, original_count,
                   exit_code, calls, sleeps, log, sink, exported, report>>
    /\ UNCHANGED interrupted

\* scraper_class(site_config) returns; scrape_with_retry starts its loop
SourceConstructed ==
    /\ pc = "loop"
    /\ si < Len(sites)
    /\ site_method(site_config) \in SCRAPER_MAP
    /\ pc' = "attempt"
    /\ attempt' = 0
    /\ calls' = 0
    /\ sleeps' = 0
    /\ UNCHANGED <<config_file, sites, si, all_events, stats, original_count,
                   exit_code, hist, log, sink, exported, report>>
    /\ UNCHANGED interrupted

\* RecordResult, were a source counted as successful whatever it returned
RecordResultAlways(scraped) ==
    /\ all_events' = all_events \o scraped
    /\ stats' = [stats EXCEPT !.successful_sites = @ + 1,
                              !.total_events = @ + Len(scraped),
                              !.sources = Put(@, site_name(site_config), Len(scraped))]


\* RecordResult, were the events of a source put in front of the pool
RecordResultInFront(scraped) ==
    IF scraped # <<>>
    THEN /\ all_events' = scraped \o all_events
         /\ stats' = [stats EXCEPT !.successful_sites = @ + 1,
                                   !.total_events = @ + Len(scraped),
                                   !.sources = Put(@, site_name(site_config), Len(scraped))]
    ELSE /\ CountFailed
         /\ UNCHANGED all_events


\* the branch of _scrape_all_sites on what scrape_with_retry returned
RecordResult(scraped) ==
    IF scraped # <<>>
    THEN /\ all_events' = all_events \o scraped
         /\ stats' = [stats EXCEPT !.successful_sites = @ + 1,
                                   !.total_events = @ + Len(scraped),
                                   !.sources = Put(@, site_name(site_config), Len(scraped))]
    ELSE /\ CountFailed
         /\ UNCHANGED all_events

\* an attempt returns: scrape_with_retry returns its events
AttemptReturns ==
    /\ pc = "attempt"
    /\ calls' = calls + 1
    /\ LET scraped == scrape(site_config, now)
       IN  /\ RecordResult(scraped)
           /\ NextSite(IF scraped # <<>> THEN "ok" ELSE "empty", TRUE, calls + 1)
    /\ UNCHANGED <<config_file, sites, attempt, original_count, exit_code,
                   sleeps, log, sink, exported, report>>
    /\ UNCHANGED interrupted

\* AttemptRaises, were the last exception to leave scrape_with_retry and the
\* for loop with it
AttemptRaisesAborts ==
    /\ pc = "attempt"
    /\ calls' = calls + 1
    /\ IF attempt < max_retries
       THEN /\ pc' = "sleep"
            /\ UNCHANGED <<si, all_events, stats, hist>>
       ELSE /\ RecordResult(<<>>)
            /\ si' = Len(sites)
            /\ pc' = "loop"
            /\ hist' = Append(hist, [kind |-> "exhausted", constructed |-> TRUE,
                                     calls |-> calls + 1, sleeps |-> sleeps])
    /\ UNCHANGED <<config_file, sites, attempt, original_count, exit_code,
                   sleeps, log, sink, exported, report>>
    /\ UNCHANGED interrupted

\* AttemptRaises, were range(max_retries + 1) one attempt longer
AttemptRaisesOnceMore ==
    /\ pc = "attempt"
    /\ calls' = calls + 1
    /\ IF attempt < max_retries + 1
       THEN /\ pc' = "sleep"
            /\ UNCHANGED <<si, all_events, stats, hist>>
       ELSE /\ RecordResult(<<>>)
            /\ NextSite("exhausted", TRUE, calls + 1)
    /\ UNCHANGED <<config_file, sites, attempt, original_count, exit_code,
                   sleeps, log, sink, exported, report>>
    /\ UNCHANGED interrupted


\* AttemptRaises, were the sleep taken after every failed attempt, the last
\* one too
AttemptRaisesSleepsAlways ==
    /\ pc = "attempt"
    /\ calls' = calls + 1
    /\ IF attempt < max_retries
       THEN /\ pc' = "sleep"
            /\ UNCHANGED <<si, all_events, stats, hist, sleeps>>
       ELSE /\ RecordResult(<<>>)
            /\ sleeps' = sleeps + 1
            /\ si' = si + 1
            /\ pc' = "loop"
            /\ hist' = Append(hist, [kind |-> "exhausted", constructed |-> TRUE,
                                     calls |-> calls + 1, sleeps |-> sleeps + 1])
    /\ UNCHANGED <<config_file, sites, attempt, original_count, exit_code,
                   log, sink, exported, report>>
    /\ UNCHANGED interrupted


\* an attempt raises: sleep before the next one, or return [] after the last
AttemptRaises ==
    /\ pc = "attempt"
    /\ calls' = calls + 1
    /\ IF attempt < max_retries
       THEN /\ pc' = "sleep"
            /\ UNCHANGED <<si, all_events, stats, hist>>
       ELSE /\ RecordResult(<<>>)
            /\ NextSite("exhausted", TRUE, calls + 1)
    /\ UNCHANGED <<config_file, sites, attempt, original_count, exit_code,
                   sleeps, log, sink, exported, report>>
    /\ UNCHANGED interrupted

\* time.sleep(retry_delay) returns; the for loop takes the next attempt
SleepDone ==
    /\ pc = "sleep"
    /\ sleeps' = sleeps + 1
    /\ attempt' = attempt + 1
    /\ pc' = "attempt"
    /\ UNCHANGED <<config_file, sites, si, all_events, stats, original_count,
                   exit_code, calls, hist, log, sink, exported, report>>
    /\ UNCHANGED interrupted

\* ScrapeDone, were step 2 to start while sources are left
ScrapeDoneEarly ==
    /\ pc = "loop"
    /\ si <= Len(sites)
    /\ pc' = "normalize"
    /\ log' = Append(log, "normalize")
    /\ UNCHANGED <<config_file, sites, si, attempt, all_events, stats,
                   original_count, exit_code, calls, sleeps, hist, sink,
                   exported, report>>
    /\ UNCHANGED interrupted


\* _scrape_all_sites returns; step 2 of run starts
ScrapeDone ==
    /\ pc = "loop"
    /\ si = Len(sites)
    /\ pc' = "normalize"
    /\ log' = Append(log, "normalize")
    /\ UNCHANGED <<config_file, sites, si, attempt, all_events, stats,
                   original_count, exit_code, calls, sleeps, hist, sink, exported, report>>
    /\ UNCHANGED interrupted

\* self.all_events = normalize_events(self.all_events); step 3 starts
Normalize ==
    /\ pc = "normalize"
    /\ all_events' = normalize_events(all_events, now)
    /\ pc' = "dedup"
    /\ log' = Append(log, "dedup")
    /\ UNCHANGED <<config_file, sites, si, attempt, stats, original_count,
                   exit_code, calls, sleeps, hist, sink, exported, report>>
    /\ UNCHANGED interrupted

\* Dedup, were the duplicates counted against the raw pool
DedupCountsRaw ==
    /\ pc = "dedup"
    /\ original_count' = stats.total_events
    /\ all_events' = deduplicate_events(all_events)
    /\ stats' = [stats EXCEPT !.duplicates_removed = original_count' - Len(all_events'),
                              !.unique_events = Len(all_events')]
    /\ pc' = "export"
    /\ log' = Append(log, "export")
    /\ UNCHANGED <<config_file, sites, si, attempt, exit_code, calls, sleeps,
                   hist, sink, exported, report>>
    /\ UNCHANGED interrupted


\* step 3 of run: deduplicate and fill in the two counts; step 4 starts
Dedup ==
    /\ pc = "dedup"
    /\ original_count' = Len(all_events)
    /\ all_events' = deduplicate_events(all_events)
    /\ stats' = [stats EXCEPT !.duplicates_removed = original_count' - Len(all_events'),
                              !.unique_events = Len(all_events')]
    /\ pc' = "export"
    /\ log' = Append(log, "export")
    /\ UNCHANGED <<config_file, sites, si, attempt, exit_code, calls, sleeps,
                   hist, sink, exported, report>>
    /\ UNCHANGED interrupted


\* _export_to_sheets ends as outcome; step 5 of run starts
ExportReturns(outcome) ==
    /\ exported' = outcome
    /\ pc' = "report"
    /\ log' = Append(log, "report")

\* the credentials or the spreadsheet id are not set: warn and return
ExportSkipped ==
    /\ pc = "export"
    /\ ExportReturns("skipped")
    /\ UNCHANGED <<config_file, sites, si, attempt, all_events, stats,
                   original_count, exit_code, calls, sleeps, hist, sink, report>>
    /\ UNCHANGED interrupted

\* ExportConstructFails, were the exception of SheetsExporter(...) to reach
\* the handler of run: sys.exit(1)
ExportConstructFailsExits ==
    /\ pc = "export"
    /\ exported' = "constructor"
    /\ exit_code' = 1
    /\ pc' = "exited"
    /\ UNCHANGED <<config_file, sites, si, attempt, all_events, stats,
                   original_count, calls, sleeps, hist, log, sink, report>>
    /\ UNCHANGED interrupted


\* SheetsExporter(...) raises: except Exception logs it
ExportConstructFails ==
    /\ pc = "export"
    /\ ExportReturns("constructor")
    /\ UNCHANGED <<config_file, sites, si, attempt, all_events, stats,
                   original_count, exit_code, calls, sleeps, hist, sink, report>>
    /\ UNCHANGED interrupted

\* ExportFails, were the summary added whatever export_events returned
ExportFailsSummarised ==
    /\ pc = "export"
    /\ sink' = sink \o <<[op |-> "export_events", arg |-> all_events],
                         [op |-> "add_summary_sheet", arg |-> stats]>>
    /\ ExportReturns("failed")
    /\ UNCHANGED <<config_file, sites, si, attempt, all_events, stats,
                   original_count, exit_code, calls, sleeps, hist, report>>
    /\ UNCHANGED interrupted


\* exporter.export_events(self.all_events) returns False
ExportFails ==
    /\ pc = "export"
    /\ sink' = Append(sink, [op |-> "export_events", arg |-> all_events])
    /\ ExportReturns("failed")
    /\ UNCHANGED <<config_file, sites, si, attempt, all_events, stats,
                   original_count, exit_code, calls, sleeps, hist, report>>
    /\ UNCHANGED interrupted

\* export_events returns True, then exporter.add_summary_sheet(self.stats)
ExportSucceeds ==
    /\ pc = "export"
    /\ sink' = sink \o <<[op |-> "export_events", arg |-> all_events],
                         [op |-> "add_summary_sheet", arg |-> stats]>>
    /\ ExportReturns("ok")
    /\ UNCHANGED <<config_file, sites, si, attempt, all_events, stats,
                   original_count, exit_code, calls, sleeps, hist, report>>
    /\ UNCHANGED interrupted

\* _generate_report writes the file; run returns
ReportWritten ==
    /\ pc = "report"
    /\ report' = [status |-> "written", stats |-> stats]
    /\ pc' = "done"
    /\ UNCHANGED <<config_file, sites, si, attempt, all_events, stats,
                   original_count, exit_code, calls, sleeps, hist, log, sink,
                   exported>>
    /\ UNCHANGED interrupted

\* _generate_report cannot write the file: except Exception logs it
ReportFails ==
    /\ pc = "report"
    /\ report' = [status |-> "failed"]
    /\ pc' = "done"
    /\ UNCHANGED <<config_file, sites, si, attempt, all_events, stats,
                   original_count, exit_code, calls, sleeps, hist, log, sink,
                   exported>>
    /\ UNCHANGED interrupted

\* the positions of run()
RunPositions == {"loop", "attempt", "sleep", "normalize", "dedup", "export", "report"}

\* Interrupt, were the except clause of scrape_with_retry to catch it as it
\* catches an Exception of an attempt that has a retry left
InterruptSwallowed ==
    /\ pc \in RunPositions
    /\ interrupted' = TRUE
    /\ IF pc = "attempt" /\ attempt < max_retries
       THEN /\ calls' = calls + 1
            /\ pc' = "sleep"
            /\ UNCHANGED exit_code
       ELSE /\ exit_code' = 1
            /\ pc' = "exited"
            /\ UNCHANGED calls
    /\ UNCHANGED <<config_file, sites, si, attempt, all_events, stats,
                   original_count, sleeps, hist, log, sink, exported,
                   report>>


\* KeyboardInterrupt raised in run(): no except Exception catches it, the
\* handler of run does, sys.exit(1)
Interrupt ==
    /\ pc \in RunPositions
    /\ interrupted' = TRUE
    /\ exit_code' = 1
    /\ pc' = "exited"
    /\ UNCHANGED <<config_file, sites, si, attempt, all_events, stats,
                   original_count, calls, sleeps, hist, log, sink, exported,
                   report>>


(***************************************************************************)
(* date_parser.py: the arguments of the model and the calls.               *)
(***************************************************************************)

\* the clock texts given to parse_time: an hour, a colon, a minute and
\* nothing, pm or AM after it (am or pm after the hours 0 and 14 only with a
\* minute no clock has)
ClockHours == {<<"0">>, <<"9">>, <<"1", "2">>, <<"1", "4">>, <<"2", "5">>}
ClockMinutes == {<<"0", "0">>, <<"3", "0">>, <<"7", "5">>}
ClockSuffixes == {<<>>, <<"p", "m">>, <<" ", "A", "M">>}
ClockParts ==
    {p \in ClockHours \X ClockMinutes \X ClockSuffixes :
        \/ p[3] = <<>>
        \/ p[1] \in {<<"9">>, <<"1", "2">>, <<"2", "5">>}
        \/ p[2] = <<"7", "5">>}
ClockTexts == {p[1] \o <<":">> \o p[2] \o p[3] : p \in ClockParts}

\* the other texts given to parse_time
OtherTexts == {<<>>, <<"t", "b", "d">>, <<"g", "i", "b", "b", "e", "r", "i", "s", "h", "#", "#">>, <<"A", "l", "l", " ", "D", "a", "y">>, <<"a", "l", "l", "-", "d", "a", "y">>}

\* each text as it is, after a blank and before a blank; and None
TimeArguments ==
    {pre \o text \o post : text \in ClockTexts \cup OtherTexts,
                           pre \in {<<>>, <<" ">>}, post \in {<<>>, <<" ">>}}
    \cup {PyNone}

\* the argument parse_time is called with
InitTime ==
    /\ time_arg \in TimeArguments
    /\ time_out = <<>>
    /\ tstage = "input"

\* the call parse_time(time_arg)
ParseTime ==
    /\ tstage = "input"
    /\ time_out' = parse_time(time_arg)
    /\ tstage' = "parsed"
    /\ UNCHANGED time_arg

\* the hour and the minute _convert_24h_to_12h is called with
InitConvert ==
    /\ conv_hour \in 0..MaxHour
    /\ conv_minute \in 0..MaxMinute
    /\ conv_out = <<>>
    /\ cstage = "input"

\* _convert_24h_to_12h is not part of the run
ConvIdle ==
    /\ conv_hour = 0
    /\ conv_minute = 0
    /\ conv_out = <<>>
    /\ cstage = "input"

\* parse_time is not part of the run
TextIdle ==
    /\ time_arg = <<>>
    /\ time_out = <<>>
    /\ tstage = "input"

TimeIdle == TextIdle /\ ConvIdle

\* the call _convert_24h_to_12h(conv_hour, conv_minute)
Convert ==
    /\ cstage = "input"
    /\ conv_out' = _convert_24h_to_12h(conv_hour, conv_minute)
    /\ cstage' = "converted"
    /\ UNCHANGED <<conv_hour, conv_minute>>

(***************************************************************************)
(* Specifications.                                                         *)
(***************************************************************************)
NextDedup ==
    \/ Deduplicate /\ UNCHANGED <<hashVars, now, oneVars, batchVars, runVars, timeVars>>
    \/ DeduplicateAgain /\ UNCHANGED <<hashVars, now, oneVars, batchVars, runVars, timeVars>>

StartDedup == InitDedup /\ HashIdle /\ ClockInit /\ OneIdle /\ BatchIdle /\ RunIdle /\ TimeIdle

SpecDedup == StartDedup /\ [][NextDedup]_vars

NextHash == Hash /\ UNCHANGED <<dedupVars, now, oneVars, batchVars, runVars, timeVars>>

StartHash == InitHash /\ DedupIdle /\ ClockInit /\ OneIdle /\ BatchIdle /\ RunIdle /\ TimeIdle

SpecHash == StartHash /\ [][NextHash]_vars

NextOne ==
    \/ Tick /\ UNCHANGED <<dedupVars, hashVars, oneVars, batchVars, runVars, timeVars>>
    \/ NormalizeEvent /\ UNCHANGED <<dedupVars, hashVars, now, batchVars, runVars, timeVars>>

StartOne == InitOne /\ DedupIdle /\ HashIdle /\ ClockInit /\ BatchIdle /\ RunIdle /\ TimeIdle

SpecNormOne == StartOne /\ [][NextOne]_vars

NextBatch ==
    \/ Tick /\ UNCHANGED <<dedupVars, hashVars, oneVars, batchVars, runVars, timeVars>>
    \/ NormalizeKeep /\ UNCHANGED <<dedupVars, hashVars, now, oneVars, runVars, timeVars>>
    \/ NormalizeDiscard /\ UNCHANGED <<dedupVars, hashVars, now, oneVars, runVars, timeVars>>
    \/ NormalizeReturn /\ UNCHANGED <<dedupVars, hashVars, now, oneVars, runVars, timeVars>>

StartBatch == InitBatch /\ DedupIdle /\ HashIdle /\ ClockInit /\ OneIdle /\ RunIdle /\ TimeIdle

SpecNorm == StartBatch /\ [][NextBatch]_vars

NextRun ==
    \/ LoadConfigOk /\ UNCHANGED <<dedupVars, hashVars, now, oneVars, batchVars, timeVars>>
    \/ LoadConfigFail /\ UNCHANGED <<dedupVars, hashVars, now, oneVars, batchVars, timeVars>>
    \/ SourceUnknownMethod /\ UNCHANGED <<dedupVars, hashVars, now, oneVars, batchVars, timeVars>>
    \/ SourceConstructFails /\ UNCHANGED <<dedupVars, hashVars, now, oneVars, batchVars, timeVars>>
    \/ SourceConstructed /\ UNCHANGED <<dedupVars, hashVars, now, oneVars, batchVars, timeVars>>
    \/ AttemptReturns /\ UNCHANGED <<dedupVars, hashVars, now, oneVars, batchVars, timeVars>>
    \/ AttemptRaises /\ UNCHANGED <<dedupVars, hashVars, now, oneVars, batchVars, timeVars>>
    \/ SleepDone /\ UNCHANGED <<dedupVars, hashVars, now, oneVars, batchVars, timeVars>>
    \/ ScrapeDone /\ UNCHANGED <<dedupVars, hashVars, now, oneVars, batchVars, timeVars>>
    \/ Normalize /\ UNCHANGED <<dedupVars, hashVars, now, oneVars, batchVars, timeVars>>
    \/ Dedup /\ UNCHANGED <<dedupVars, hashVars, now, oneVars, batchVars, timeVars>>
    \/ ExportSkipped /\ UNCHANGED <<dedupVars, hashVars, now, oneVars, batchVars, timeVars>>
    \/ ExportConstructFails /\ UNCHANGED <<dedupVars, hashVars, now, oneVars, batchVars, timeVars>>
    \/ ExportFails /\ UNCHANGED <<dedupVars, hashVars, now, oneVars, batchVars, timeVars>>
    \/ ExportSucceeds /\ UNCHANGED <<dedupVars, hashVars, now, oneVars, batchVars, timeVars>>
    \/ ReportWritten /\ UNCHANGED <<dedupVars, hashVars, now, oneVars, batchVars, timeVars>>
    \/ ReportFails /\ UNCHANGED <<dedupVars, hashVars, now, oneVars, batchVars, timeVars>>
    \/ Interrupt /\ UNCHANGED <<dedupVars, hashVars, now, oneVars, batchVars, timeVars>>

StartRun == InitRun /\ DedupIdle /\ HashIdle /\ ClockInit /\ OneIdle /\ BatchIdle /\ TimeIdle

SpecRun == StartRun /\ [][NextRun]_vars

NextConvert == Convert /\ UNCHANGED <<dedupVars, hashVars, now, oneVars, batchVars, runVars, textVars>>

StartConvert == InitConvert /\ TextIdle /\ DedupIdle /\ HashIdle /\ ClockInit /\ OneIdle /\ BatchIdle /\ RunIdle

SpecConvert == StartConvert /\ [][NextConvert]_vars

NextTime == ParseTime /\ UNCHANGED <<dedupVars, hashVars, now, oneVars, batchVars, runVars, convVars>>

StartTime == InitTime /\ ConvIdle /\ DedupIdle /\ HashIdle /\ ClockInit /\ OneIdle /\ BatchIdle /\ RunIdle

SpecTime == StartTime /\ [][NextTime]_vars

(***************************************************************************)
(* Claims about deduplicate_events (SpecDedup).                            *)
(***************************************************************************)
Fingerprints(evs) == {create_event_hash(evs[i]) : i \in 1..Len(evs)}

\* the smallest index of evs whose event has fingerprint h
FirstIndex(evs, h) ==
    CHOOSE i \in 1..Len(evs) :
        /\ create_event_hash(evs[i]) = h
        /\ \A j \in 1..(i - 1) : create_event_hash(evs[j]) # h

\* C1: first-seen-wins. For every fingerprint of the input, the output holds
\* an event with that fingerprint, and every output event with it is the
\* input event at the smallest index carrying that fingerprint.
C1_FirstSeenWins ==
    dstage # "input" =>
        \A h \in Fingerprints(events) :
            /\ \E k \in 1..Len(unique) : create_event_hash(unique[k]) = h
            /\ \A k \in 1..Len(unique) :
                    create_event_hash(unique[k]) = h
                        => unique[k] = events[FirstIndex(events, h)]

\* a later event with the same fingerprint and a longer description was dropped
C1_Witness ==
    /\ dstage = "once"
    /\ \E i, j \in 1..Len(events) :
            /\ i < j
            /\ create_event_hash(events[i]) = create_event_hash(events[j])
            /\ Len(events[j].description) > Len(events[i].description)
            /\ events[i] \in {unique[k] : k \in 1..Len(unique)}
            /\ events[j] \notin {unique[k] : k \in 1..Len(unique)}

\* C2: the output has no two events with the same fingerprint, and its set
\* of fingerprints is the input's set of fingerprints.
C2_UniqueAndComplete ==
    dstage # "input" =>
        /\ \A k, l \in 1..Len(unique) :
                create_event_hash(unique[k]) = create_event_hash(unique[l]) => k = l
        /\ Fingerprints(unique) = Fingerprints(events)

\* duplicates were removed and more than one fingerprint remains
C2_Witness ==
    /\ dstage = "once"
    /\ Len(unique) < Len(events)
    /\ Cardinality(Fingerprints(events)) >= 2

\* a is b with some elements left out, the others in b's order
RECURSIVE IsSubsequence(_, _)
IsSubsequence(a, b) ==
    IF a = <<>> THEN TRUE
    ELSE IF b = <<>> THEN FALSE
    ELSE IF Head(a) = Head(b) THEN IsSubsequence(Tail(a), Tail(b))
    ELSE IsSubsequence(a, Tail(b))

\* C3: the output of deduplicate_events is a subsequence of its input.
C3_OrderPreserved == dstage # "input" => IsSubsequence(unique, events)

\* an event was dropped from between two different kept events
C3_Witness ==
    /\ dstage = "once"
    /\ Len(events) = 3
    /\ Len(unique) = 2
    /\ unique[1] = events[1]
    /\ unique[2] = events[3]
    /\ unique[1] # unique[2]

\* C4: deduplicating a deduplicated list returns it unchanged.
C4_Idempotent == dstage = "twice" => again = unique

\* the first pass removed something and left at least two events
C4_Witness ==
    /\ dstage = "twice"
    /\ Len(unique) < Len(events)
    /\ Len(unique) >= 2

(***************************************************************************)
(* Claims about create_event_hash (SpecHash).                              *)
(***************************************************************************)
SameLetter(c, d) == c = d \/ \E p \in CasePairs : {c, d} = {p[1], p[2]}

IsBlank(s) == \A i \in 1..Len(s) : s[i] \in Whitespace

\* s and t are the same text up to letter case once some leading and some
\* trailing blanks are taken off each
DiffersOnlyInCaseOrBlanks(s, t) ==
    \E ls, rs \in 0..Len(s), lt, rt \in 0..Len(t) :
        /\ ls + rs <= Len(s)
        /\ lt + rt <= Len(t)
        /\ IsBlank(SubSeq(s, 1, ls))
        /\ IsBlank(SubSeq(s, Len(s) - rs + 1, Len(s)))
        /\ IsBlank(SubSeq(t, 1, lt))
        /\ IsBlank(SubSeq(t, Len(t) - rt + 1, Len(t)))
        /\ Len(s) - ls - rs = Len(t) - lt - rt
        /\ \A i \in 1..(Len(s) - ls - rs) : SameLetter(s[ls + i], t[lt + i])

KeyFields == {"title", "when_date", "location"}

SameKeyUpToCaseAndBlanks(e, f) ==
    \A k \in KeyFields :
        DiffersOnlyInCaseOrBlanks(Get(e, k, <<>>), Get(f, k, <<>>))

\* C5: two events whose title, when_date and location differ only in letter
\* case or surrounding blanks get the same fingerprint, whatever else they hold.
C5_CaseAndBlankInsensitive ==
    (hstage = "hashed" /\ SameKeyUpToCaseAndBlanks(ev1, ev2)) => hash1 = hash2

\* hashed events that differ in case, in surrounding blanks and in description
C5_Witness ==
    /\ hstage = "hashed"
    /\ SameKeyUpToCaseAndBlanks(ev1, ev2)
    /\ Lower(ev1.title) # Lower(ev2.title)
    /\ Strip(ev1.title) # <<>>
    /\ ev1.when_date # ev2.when_date
    /\ "description" \notin DOMAIN ev1 /\ "description" \in DOMAIN ev2
    /\ "location" \in DOMAIN ev1 /\ "location" \in DOMAIN ev2
    /\ ev1.location # ev2.location
    /\ hash1 = hash2

\* the identity triple of an event
KeyTriple(e) ==
    <<Lower(Strip(Get(e, "title", <<>>))),
      Lower(Strip(Get(e, "when_date", <<>>))),
      Lower(Strip(Get(e, "location", <<>>)))>>

\* C6: events with different identity triples have different pre-hash
\* strings (and so different fingerprints), also when a title or a location
\* contains the delimiter.
C6_UnambiguousEncoding ==
    hstage = "hashed" =>
        (KeyTriple(ev1) # KeyTriple(ev2)
            => unique_string(ev1) # unique_string(ev2) /\ hash1 # hash2)

(***************************************************************************)
(* Claims about normalize_events (SpecNorm) and normalize_event            *)
(* (SpecNormOne).                                                          *)
(***************************************************************************)
\* the record's title is a string with something other than blanks in it
HasTitle(r) == "title" \in DOMAIN r /\ IsStr(r.title) /\ ~IsBlank(r.title)

\* the records among the first n of a list that have a title, in order
Titled(records, n) == SelectSeq(SubSeq(records, 1, n), HasTitle)

\* C7: a missing title is the only reason a record is dropped. After any
\* number of iterations the events kept are, in order, one per consumed
\* record with a title, so their number is the number of records consumed
\* minus the number of those without a title.
C7_OnlyTitleRejects ==
    nstage \in {"loop", "returned"} =>
        /\ Len(normalized_events)
               = ni - Cardinality({i \in 1..ni : ~HasTitle(raw[i])})
        /\ \A k \in 1..Len(normalized_events) :
               normalized_events[k].title = Strip(Titled(raw, ni)[k].title)

\* a returned batch of three: one record without a title was dropped, one
\* with an unparseable date was kept
C7_Witness ==
    /\ nstage = "returned"
    /\ Len(raw) = 3
    /\ Len(normalized_events) = 2
    /\ \E i \in 1..3 : "title" \in DOMAIN raw[i] /\ raw[i].title = <<" ">>
    /\ \E i \in 1..3 : HasTitle(raw[i]) /\ raw[i].when_date = <<"t", "b", "d">>
    /\ \E k \in 1..2 : normalized_events[k].when_date = <<>>

\* the record has no when_date, an empty one, or one dateutil cannot parse
DateUnusable(r) ==
    \/ "when_date" \notin DOMAIN r
    \/ r.when_date \in {<<>>, PyNone}
    \/ ~dateutil_parse(Strip(PyStr(r.when_date))).ok

\* C8: a record with a title whose when_date is absent, empty or
\* unparseable is returned as an event with an empty when_date.
C8_MissingDateKept ==
    (ostage = "normalized" /\ HasTitle(rec) /\ DateUnusable(rec))
        => ~IsNoEvent(out) /\ out.when_date = <<>>

\* a titled record with an unparseable date came back with an empty date
C8_Witness ==
    /\ ostage = "normalized"
    /\ HasTitle(rec)
    /\ "when_date" \in DOMAIN rec /\ rec.when_date = <<"t", "b", "d">>
    /\ ~IsNoEvent(out)
    /\ out.title = <<"x">>
    /\ out.when_date = <<>>

EventFields ==
    {"title", "description", "when_date", "when_time", "location",
     "registration_url", "event_url", "image_url", "target_age",
     "source_organization", "scraped_at"}

\* C9 as stated: the keys of a returned event are Event fields only.
C9_OnlyEventFields ==
    (ostage = "normalized" /\ ~IsNoEvent(out)) => DOMAIN out \subseteq EventFields

\* C9 as amended: a returned event has the eleven Event fields and every
\* other key of the input record, each such key with its input value.
C9_OtherFieldsCarried ==
    (ostage = "normalized" /\ ~IsNoEvent(out)) =>
        /\ DOMAIN out = EventFields \cup DOMAIN rec
        /\ \A k \in DOMAIN rec \ EventFields : out[k] = rec[k]

\* a record with a key that is no Event field was normalized into an event
C9_Witness ==
    /\ ostage = "normalized"
    /\ ~IsNoEvent(out)
    /\ "price" \in DOMAIN rec
    /\ "price" \in DOMAIN out
    /\ DOMAIN rec # DOMAIN out

\* the record has no scraped_at, or an empty one ('' or None)
ScrapedAtMissing(r) ==
    "scraped_at" \notin DOMAIN r \/ r.scraped_at \in {<<>>, PyNone}

\* C10: the returned event's scraped_at is the timestamp of the call when
\* the record's scraped_at is absent or empty, and is the record's own
\* value, not the timestamp of the call, otherwise.
C10_ScrapedAt ==
    (ostage = "normalized" /\ ~IsNoEvent(out)) =>
        IF ScrapedAtMissing(rec)
        THEN out.scraped_at = isoformat(called_at)
        ELSE out.scraped_at = rec.scraped_at /\ out.scraped_at # isoformat(called_at)

\* a record whose scraped_at is None was stamped after the clock had moved
C10_Witness ==
    /\ ostage = "normalized"
    /\ ~IsNoEvent(out)
    /\ "scraped_at" \in DOMAIN rec /\ rec.scraped_at = PyNone
    /\ called_at = 2
    /\ out.scraped_at = <<"T", "2">>

(***************************************************************************)
(* Claims about the orchestrator (SpecRun).                                *)
(***************************************************************************)

\* the sources the loop has finished that ended as one of kinds
Ended(kinds) == {k \in 1..Len(hist) : hist[k].kind \in kinds}

FailedKinds == {"unknown", "constructor", "exhausted", "empty"}

\* what the first n sources published, those that ended "ok" only, in order
RECURSIVE PoolOfOthers(_)
PoolOfOthers(n) ==
    IF n = 0 THEN <<>>
    ELSE PoolOfOthers(n - 1)
         \o (IF hist[n].kind = "ok" THEN scrape(sites[n], now) ELSE <<>>)

\* C11: while sources are scraped and when normalization starts, the pool is
\* what the sources that succeeded published, in order, whatever the sources
\* that raised on every attempt or failed otherwise did; these are counted as
\* failed and the others as successful; and normalization starts only when
\* the loop has been through every source.
C11_FailureIsolation ==
    pc \in {"loop", "attempt", "sleep", "normalize"} =>
        /\ Len(hist) = si
        /\ all_events = PoolOfOthers(si)
        /\ stats.successful_sites = Cardinality(Ended({"ok"}))
        /\ stats.failed_sites = Cardinality(Ended(FailedKinds))
        /\ stats.successful_sites + stats.failed_sites = si
        /\ pc = "normalize" => si = Len(sites)

\* three sources, the first raising on every attempt: two successful, one failed
C11_Witness ==
    /\ pc = "normalize"
    /\ Len(hist) = 3
    /\ hist[1].kind = "exhausted"
    /\ hist[2].kind = "ok"
    /\ hist[3].kind = "ok"
    /\ stats.successful_sites = 2
    /\ stats.failed_sites = 1
    /\ all_events = scrape(sites[2], now) \o scrape(sites[3], now)

\* C12: scrape() is called at most max_retries + 1 times for a source, every
\* call before the last one raised, a source that raised max_retries + 1 times
\* ends without an exception, and is counted as failed.
C12_BoundedRetry ==
    /\ calls <= max_retries + 1
    /\ pc = "attempt" => calls = attempt /\ sleeps = attempt /\ attempt <= max_retries
    /\ \A k \in 1..Len(hist) :
          /\ hist[k].calls <= max_retries + 1
          /\ hist[k].kind \in {"ok", "empty"} => hist[k].calls = hist[k].sleeps + 1
          /\ hist[k].kind = "exhausted" => hist[k].calls = max_retries + 1
    /\ pc \in {"loop", "attempt", "sleep"} =>
          stats.failed_sites >= Cardinality(Ended({"exhausted"}))
    /\ pc = "loop" /\ si > 0 /\ hist[si].kind = "ok" =>
          \E head \in {SubSeq(all_events, 1, n) : n \in 0..Len(all_events)} :
              all_events = head \o scrape(sites[si], now)

\* one source gave up after max_retries + 1 calls, another returned on a retry
C12_Witness ==
    /\ pc = "loop"
    /\ \E k \in 1..Len(hist) : hist[k].kind = "exhausted" /\ hist[k].calls = max_retries + 1
    /\ \E k \in 1..Len(hist) : hist[k].kind = "ok" /\ hist[k].calls = 2

\* C13: when a strategy returns, zero records add one to failed_sites and
\* leave successful_sites, the per-source counts and the pool as they were;
\* one record or more add one to successful_sites, are appended to the pool
\* and their number is recorded under the name of the source.
C13_EmptyIsFailure ==
    [][pc = "attempt" /\ pc' = "loop" /\ hist'[si'].kind \in {"ok", "empty"} =>
          LET scraped == scrape(sites[si + 1], now)
              name == site_name(sites[si + 1])
          IN  IF scraped = <<>>
              THEN /\ hist'[si'].kind = "empty"
                   /\ stats'.failed_sites = stats.failed_sites + 1
                   /\ stats'.successful_sites = stats.successful_sites
                   /\ stats'.sources = stats.sources
                   /\ stats'.total_events = stats.total_events
                   /\ all_events' = all_events
              ELSE /\ hist'[si'].kind = "ok"
                   /\ stats'.successful_sites = stats.successful_sites + 1
                   /\ stats'.failed_sites = stats.failed_sites
                   /\ all_events' = all_events \o scraped
                   /\ name \in DOMAIN stats'.sources
                   /\ stats'.sources[name] = Len(scraped)]_vars

\* a source that returned no record has no entry, one that returned three has
C13_Witness ==
    /\ pc = "loop"
    /\ \E k \in 1..Len(hist) :
          /\ hist[k].kind = "empty"
          /\ site_name(sites[k]) \notin DOMAIN stats.sources
    /\ \E k \in 1..Len(hist) :
          /\ hist[k].kind = "ok"
          /\ stats.sources[site_name(sites[k])] = 3
    /\ stats.failed_sites = 1
    /\ stats.successful_sites = 1
    /\ Len(all_events) = 3

\* C14: a source whose method is none of the registered ones, or is missing,
\* adds one to failed_sites and nothing else: no scraper is constructed or
\* called for it, the pool is unchanged and the loop goes to the next source.
C14_UnknownMethod ==
    [][/\ pc \in {"attempt", "sleep"} => site_method(site_config) \in SCRAPER_MAP
       /\ \A k \in 1..Len(hist) :
             site_method(sites[k]) \notin SCRAPER_MAP =>
                 /\ hist[k].kind = "unknown"
                 /\ ~hist[k].constructed
                 /\ hist[k].calls = 0
       /\ (pc = "loop" /\ si < Len(sites) /\ pc' # "exited"
              /\ site_method(site_config) \notin SCRAPER_MAP) =>
             /\ stats' = [stats EXCEPT !.failed_sites = @ + 1]
             /\ all_events' = all_events
             /\ si' = si + 1
             /\ pc' = "loop"]_vars

\* an unregistered method, then a missing one, then a source that is scraped
C14_Witness ==
    /\ pc = "normalize"
    /\ Len(hist) = 3
    /\ site_method(sites[1]) = "rss" /\ hist[1].kind = "unknown"
    /\ "method" \notin DOMAIN sites[2] /\ hist[2].kind = "unknown"
    /\ hist[3].kind = "ok"
    /\ stats.failed_sites = 2
    /\ all_events = scrape(sites[3], now)

\* sum(d.values())
RECURSIVE SumValues(_)
SumValues(d) ==
    IF DOMAIN d = {} THEN 0
    ELSE LET key == CHOOSE k \in DOMAIN d : TRUE
         IN  d[key] + SumValues([k \in DOMAIN d \ {key} |-> d[k]])

\* C15: when all sources are scraped, total_events is the sum of the
\* per-source counts, and both are the number of records in the raw pool.
C15_CountsAgree ==
    pc = "normalize" =>
        /\ stats.total_events = SumValues(stats.sources)
        /\ stats.total_events = Len(all_events)

\* the run has entered stage
Reached(stage) == \E i \in 1..Len(log) : log[i] = stage

\* the events of the raw pool that normalization keeps
Survivors == normalize_events(PoolOfOthers(Len(hist)), now)

\* the calls of export_events made on the sink
ExportCalls == {i \in 1..Len(sink) : sink[i].op = "export_events"}

\* C16: once the run has reached the export stage, unique_events and
\* duplicates_removed add up to the number of events normalization kept, and
\* unique_events is the length of the list held for, and handed to, the sink.
C16_DedupCounts ==
    Reached("export") =>
        /\ stats.unique_events + stats.duplicates_removed = Len(Survivors)
        /\ stats.unique_events = Len(all_events)
        /\ \A i \in ExportCalls : Len(sink[i].arg) = stats.unique_events

\* three records scraped, two kept by normalization, one of them a duplicate
C16_Witness ==
    /\ pc = "report"
    /\ ExportCalls # {}
    /\ stats.total_events = 3
    /\ Len(Survivors) = 2
    /\ stats.unique_events = 1
    /\ stats.duplicates_removed = 1

StageOrder == <<"scrape", "normalize", "dedup", "export", "report">>

\* C17: the stages are entered in the order scrape, normalize, deduplicate,
\* export, report, each once; normalization starts when every source has
\* finished and runs over the whole pool, deduplication over all that
\* normalization kept; the one export_events call gets exactly the
\* deduplicated list; the report is made after the export stage has ended.
C17_StageOrder ==
    /\ Len(log) <= Len(StageOrder)
    /\ log = SubSeq(StageOrder, 1, Len(log))
    /\ pc = "done" => log = StageOrder
    /\ Reached("normalize") => Len(hist) = Len(sites)
    /\ pc = "normalize" => all_events = PoolOfOthers(Len(sites))
    /\ pc = "dedup" => all_events = Survivors
    /\ Reached("export") => all_events = deduplicate_events(Survivors)
    /\ Cardinality(ExportCalls) <= 1
    /\ \A i \in ExportCalls :
          Reached("export") /\ sink[i].arg = deduplicate_events(Survivors)
    /\ report.status # "none" => exported # "none" /\ pc = "done"
    /\ exported # "none" => Reached("report")

\* a run over three sources that exported two events and wrote its report
C17_Witness ==
    /\ pc = "done"
    /\ log = StageOrder
    /\ Len(hist) = 3
    /\ exported = "ok"
    /\ sink[1] = [op |-> "export_events", arg |-> deduplicate_events(Survivors)]
    /\ Len(sink[1].arg) = 2
    /\ Len(PoolOfOthers(3)) = 8
    /\ report.status = "written"

\* the ways _export_to_sheets fails
ExportFailures == {"constructor", "failed"}

\* C18: the step in which the export fails does not end the process and
\* leaves the deduplicated list and the statistics as they were; the run goes
\* on to the report step, a finished run has been through it, and a report
\* that was written holds those statistics.
C18_ReportDespiteSink ==
    [][/\ (pc = "export" /\ exported' \in ExportFailures) =>
             /\ pc' = "report"
             /\ exit_code' = 0
             /\ all_events' = all_events
             /\ stats' = stats
       /\ (exported \in ExportFailures /\ pc = "report" /\ pc' # "exited") =>
             /\ pc' = "done"
             /\ report'.status \in {"written", "failed"}
             /\ report'.status = "written" => report'.stats = stats
             /\ all_events' = all_events
             /\ stats' = stats
             /\ exit_code' = 0]_vars

\* export_events returned False and the report was written all the same
C18_Witness ==
    /\ pc = "done"
    /\ exported = "failed"
    /\ Len(sink) = 1
    /\ stats.unique_events = 1
    /\ all_events = sink[1].arg
    /\ report = [status |-> "written", stats |-> stats]
    /\ exit_code = 0

\* C19: a KeyboardInterrupt raised anywhere in run() ends the process at once
\* with a non-zero status: no handler of an attempt or of a source takes it,
\* nothing is scraped, exported or reported in that step or after it, and
\* when it comes before the export stage the sink has not been called.
C19_InterruptStops ==
    [][/\ pc # "exited"
       /\ interrupted' => pc' = "exited" /\ exit_code' # 0
       /\ (interrupted' /\ ~interrupted) =>
             /\ pc \in RunPositions
             /\ <<si, calls, sleeps, hist, all_events, stats, sink, exported, report>>'
                    = <<si, calls, sleeps, hist, all_events, stats, sink, exported, report>>
       /\ (interrupted' /\ \A i \in 1..Len(log') : log'[i] # "export") =>
             sink' = <<>> /\ exported' = "none" /\ report'.status = "none"]_vars

\* interrupted between the two attempts of the second of three sources
C19_Witness ==
    /\ interrupted
    /\ pc = "exited"
    /\ exit_code = 1
    /\ Len(sites) = 3
    /\ Len(hist) = 1
    /\ calls = 1
    /\ sleeps = 0
    /\ sink = <<>>
    /\ report.status = "none"

\* C20: when the configuration cannot be loaded the process does nothing but
\* exit with a non-zero status: run() is not entered, no scraper is
\* constructed or called, the sink is not called and no report is made.
C20_ConfigFailureFatal ==
    config_file.kind # "mapping" =>
        /\ pc \in {"load", "exited"}
        /\ pc = "exited" => exit_code # 0
        /\ pc = "load" => exit_code = 0
        /\ log = <<>>
        /\ hist = <<>>
        /\ calls = 0
        /\ all_events = <<>>
        /\ sink = <<>>
        /\ exported = "none"
        /\ report.status = "none"

\* the file holds YAML that is not a mapping: exit status 1
C20_Witness ==
    /\ config_file.kind = "not_mapping"
    /\ pc = "exited"
    /\ exit_code = 1
    /\ ~interrupted

\* the configuration of a source does not set enabled to false
NotDisabled(s) == ~("enabled" \in DOMAIN s /\ s.enabled = FALSE)

\* the sources of the configuration file, as written
Configured == Get(config_file, "sites", <<>>)

\* C21: from the start of the run the sources are those of the file that do
\* not set enabled to false, in the order of the file, a source without the
\* key among them; a disabled source is never scraped and adds to none of
\* successful_sites, failed_sites and sources.
C21_DisabledExcluded ==
    Reached("scrape") =>
        /\ sites = SelectSeq(Configured, NotDisabled)
        /\ Len(hist) <= Len(sites)
        /\ pc \in {"attempt", "sleep"} => NotDisabled(site_config)
        /\ stats.successful_sites + stats.failed_sites = Len(hist)
        /\ \A name \in DOMAIN stats.sources :
              \E k \in 1..Len(hist) :
                  NotDisabled(sites[k]) /\ site_name(sites[k]) = name

\* a disabled source between two scraped ones, the first without the key
C21_Witness ==
    /\ pc = "normalize"
    /\ Len(Configured) = 3
    /\ ~NotDisabled(Configured[2])
    /\ "enabled" \notin DOMAIN Configured[1]
    /\ Len(hist) = 2
    /\ hist[1].kind = "ok" /\ hist[2].kind = "ok"
    /\ stats.successful_sites = 2
    /\ stats.failed_sites = 0
    /\ site_name(Configured[2]) \notin DOMAIN stats.sources

(***************************************************************************)
(* Claims about _convert_24h_to_12h (SpecConvert) and parse_time           *)
(* (SpecTime).                                                             *)
(***************************************************************************)

\* n < 100 written with two digits
TwoDigits(n) == <<Digits[(n \div 10) + 1], Digits[(n % 10) + 1]>>

\* the 12-hour clock reading of hour h of the day
ClockHour(h) ==
    IF h = 0 THEN 12 ELSE IF h <= 11 THEN h ELSE IF h = 12 THEN 12 ELSE h - 12

\* C22: for an hour in 0..23 and a minute in 0..59, _convert_24h_to_12h gives
\* the two-digit 12-hour hour (12 for hours 0 and 12, h for 1..11, h - 12 for
\* 13..23), a colon, the same minute with two digits, a blank, and AM for
\* hours 0..11, PM for hours 12..23.
C22_Convert24h ==
    (cstage = "converted" /\ conv_hour \in 0..23 /\ conv_minute \in 0..59) =>
        conv_out = TwoDigits(ClockHour(conv_hour)) \o <<":">> \o TwoDigits(conv_minute)
                       \o <<" ">> \o (IF conv_hour <= 11 THEN <<"A", "M">> ELSE <<"P", "M">>)

\* noon, five past: 12:05 PM
C22_Witness ==
    /\ cstage = "converted"
    /\ conv_hour = 12
    /\ conv_minute = 5
    /\ conv_out = <<"1", "2", ":", "0", "5", " ", "P", "M">>

\* parse_time got a non-empty str that is not an all-day text
TimeTried ==
    /\ tstage = "parsed"
    /\ IsStr(time_arg)
    /\ time_arg # <<>>
    /\ Lower(Strip(time_arg)) \notin AllDayTexts

\* the fuzzy interpretation of the argument fails
FuzzyFails == ~dateutil_parse(Strip(time_arg)).ok

\* patterns[k] is found in the argument
PatternFound(k) == Search(k, Strip(time_arg))[1] # 0

\* the argument is read by neither dateutil nor a pattern
Unparsed == TimeTried /\ FuzzyFails /\ \A k \in 0..2 : ~PatternFound(k)

C24_Sequential ==
    [][/\ Len(hist) = si
       /\ Len(hist') = si'
       /\ si' \in {si, si + 1}
       /\ pc \in {"attempt", "sleep"} => si < Len(sites)
       /\ (calls' # calls \/ sleeps' # sleeps) =>
             \/ pc = "loop" /\ pc' = "attempt" /\ calls' = 0 /\ sleeps' = 0 /\ si' = si
             \/ pc = "attempt" /\ calls' = calls + 1 /\ sleeps' = sleeps
             \/ pc = "sleep" /\ pc' = "attempt" /\ sleeps' = sleeps + 1 /\ calls' = calls /\ si' = si
       /\ si' = si + 1 =>
             /\ hist' = Append(hist, hist'[si'])
             /\ pc = "attempt" => hist'[si'].calls = calls' /\ hist'[si'].sleeps = sleeps
             /\ pc' = "loop"
       /\ pc \in {"loop", "attempt", "sleep", "normalize"} =>
             all_events = PoolOfOthers(si)]_vars

\* two sources with different events, the first returning on its retry
C24_Witness ==
    /\ pc = "normalize"
    /\ Len(hist) = 2
    /\ hist[1].kind = "ok" /\ hist[1].calls = 2 /\ hist[1].sleeps = 1
    /\ hist[2].kind = "ok" /\ hist[2].calls = 1 /\ hist[2].sleeps = 0
    /\ scrape(sites[1], now) # scrape(sites[2], now)
    /\ all_events = scrape(sites[1], now) \o scrape(sites[2], now)

\* the sources counted so far, as successful or as failed
Counted == stats.successful_sites + stats.failed_sites

\* C25: the two counters add up to the number of sources the loop has
\* finished, before and after every step; a step adds one to exactly one of
\* them when a source finishes and leaves both alone otherwise; once
\* scraping is over the sum is the number of enabled sources.
C25_CountedOnce ==
    [][/\ Counted = si
       /\ Counted' = si'
       /\ si' \in {si, si + 1}
       /\ si' = si + 1 =>
             \/ /\ stats'.successful_sites = stats.successful_sites + 1
                /\ stats'.failed_sites = stats.failed_sites
             \/ /\ stats'.failed_sites = stats.failed_sites + 1
                /\ stats'.successful_sites = stats.successful_sites
       /\ si' = si =>
             /\ stats'.successful_sites = stats.successful_sites
             /\ stats'.failed_sites = stats.failed_sites
       /\ (\E i \in 1..Len(log') : log'[i] = "normalize") =>
             Counted' = Len(SelectSeq(Configured, NotDisabled))]_vars

\* an unknown method, a constructor failure, an exhausted source, an empty
\* result or a success: three sources that ended in three different ways
C25_Witness ==
    /\ pc = "normalize"
    /\ Len(hist) = 3
    /\ Cardinality({hist[k].kind : k \in 1..3}) = 3
    /\ \E k \in 1..3 : hist[k].kind = "constructor"
    /\ \E k \in 1..3 : hist[k].kind = "exhausted"
    /\ stats.successful_sites = 1
    /\ stats.failed_sites = 2

\* what normalization keeps of the events of source k, nothing when the
\* source did not succeed
SurvivorsOf(k) ==
    IF hist[k].kind = "ok" THEN normalize_events(scrape(sites[k], now), now) ELSE <<>>

Least(S) == CHOOSE n \in S : \A m \in S : n <= m

\* the fingerprints of a list of events
HashesOf(evs) == [j \in 1..Len(evs) |-> create_event_hash(evs[j])]

\* handed, with fingerprints handed_fp, is one event per fingerprint of the
\* lists kept, with fingerprints fps: the first one of the first list that
\* has the fingerprint
FirstOfEach(handed, handed_fp, kept, fps) ==
    LET PlacesOf(k, fp) == {j \in 1..Len(kept[k]) : fps[k][j] = fp}
        SourcesOf(fp) == {k \in 1..Len(kept) : PlacesOf(k, fp) # {}}
    IN  /\ \A i \in 1..Len(handed) :
              /\ SourcesOf(handed_fp[i]) # {}
              /\ LET first == Least(SourcesOf(handed_fp[i]))
                 IN  handed[i] = kept[first][Least(PlacesOf(first, handed_fp[i]))]
        /\ \A i, j \in 1..Len(handed) : handed_fp[i] = handed_fp[j] => i = j
        /\ \A k \in 1..Len(kept) : \A j \in 1..Len(kept[k]) :
              \E i \in 1..Len(handed) : handed_fp[i] = fps[k][j]

\* the normalized events of each finished source, and their fingerprints
KeptPerSource == [k \in 1..Len(hist) |-> SurvivorsOf(k)]
HashesPerSource(kept) == [k \in 1..Len(kept) |-> HashesOf(kept[k])]
FirstOfEachSource(handed, kept) ==
    FirstOfEach(handed, HashesOf(handed), kept, HashesPerSource(kept))

\* C26: every event handed to the sink is, among the normalized events of its
\* fingerprint, the first one of the earliest source of the configuration
\* that has one, with all its fields; and the list holds one event per
\* fingerprint that any source produced.
C26_EarlierSourceWins ==
    \A c \in ExportCalls : FirstOfEachSource(sink[c].arg, KeptPerSource)

\* the source without a name and then source A both have the event x: the
\* one handed to the sink is the one of the source without a name
C26_Witness ==
    /\ ExportCalls # {}
    /\ Len(hist) = 2
    /\ hist[1].kind = "ok" /\ hist[2].kind = "ok"
    /\ site_name(sites[1]) = Unknown
    /\ site_name(sites[2]) = <<"A">>
    /\ \E j \in 1..Len(SurvivorsOf(2)) : SurvivorsOf(2)[j].title = <<"x">>
    /\ \E i \in 1..Len(sink[1].arg) :
          /\ sink[1].arg[i].title = <<"x">>
          /\ sink[1].arg[i].source_organization = Unknown
          /\ sink[1].arg[i].event_url = <<"b">>
    /\ \A i \in 1..Len(sink[1].arg) : sink[1].arg[i].source_organization # <<"A">>

\* C27: a sleep is entered only from a failed attempt that has an attempt
\* left, it is one sleep and the next attempt follows it; neither a returning
\* attempt nor the last failed one is followed by a sleep, so a source that
\* made n attempts slept n - 1 times; a failed attempt leaves the pool and
\* the statistics of successes as they were.
C27_SleepBetweenAttempts ==
    [][/\ pc' = "sleep" =>
             /\ pc = "attempt" /\ attempt < max_retries
             /\ calls' = calls + 1
             /\ all_events' = all_events /\ stats' = stats /\ si' = si
       /\ sleeps' # sleeps =>
             \/ pc = "sleep" /\ sleeps' = sleeps + 1 /\ pc' = "attempt" /\ attempt' = attempt + 1
             \/ pc = "loop" /\ pc' = "attempt" /\ sleeps' = 0
       /\ pc = "sleep" => pc' \in {"attempt", "exited"}
       /\ (pc = "attempt" /\ pc' = "loop") => sleeps' = sleeps
       /\ (pc = "attempt" /\ pc' = "loop" /\ hist'[si'].kind = "exhausted") =>
             /\ all_events' = all_events
             /\ stats'.total_events = stats.total_events
             /\ stats'.sources = stats.sources
       /\ \A k \in 1..Len(hist') :
             /\ hist'[k].constructed => hist'[k].sleeps = hist'[k].calls - 1
             /\ hist'[k].kind = "exhausted" => hist'[k].sleeps = max_retries
             /\ ~hist'[k].constructed => hist'[k].sleeps = 0]_vars

\* a source that returned at once, one that returned after one sleep and one
\* that gave up after one sleep
C27_Witness ==
    /\ pc = "loop"
    /\ Len(hist) = 3
    /\ hist[1] = [kind |-> "ok", constructed |-> TRUE, calls |-> 1, sleeps |-> 0]
    /\ hist[2] = [kind |-> "ok", constructed |-> TRUE, calls |-> 2, sleeps |-> 1]
    /\ hist[3] = [kind |-> "exhausted", constructed |-> TRUE, calls |-> 2, sleeps |-> 1]
    /\ all_events = scrape(sites[1], now) \o scrape(sites[2], now)

\* the constructor of the source the loop is at did not return
ConstructorRaised ==
    /\ pc = "loop"
    /\ si < Len(sites)
    /\ site_method(site_config) \in SCRAPER_MAP
    /\ vars' # vars
    /\ pc' # "attempt"
    /\ interrupted' = interrupted

\* C28: when the constructor of a source's scraper raises, failed_sites grows
\* by exactly one, no attempt is made and no sleep is taken for the source,
\* nothing is pooled or counted as success, and the loop is at the next source
\* with the run neither exited nor given an exit code.
C28_ConstructorFailure ==
    [][ConstructorRaised =>
          /\ site_method(site_config) \in ConstructorCanRaise
          /\ stats' = [stats EXCEPT !.failed_sites = @ + 1]
          /\ all_events' = all_events
          /\ calls' = calls /\ sleeps' = sleeps /\ attempt' = attempt
          /\ pc' = "loop" /\ si' = si + 1
          /\ exit_code' = exit_code
          /\ hist' = Append(hist, [kind |-> "constructor", constructed |-> FALSE,
                                   calls |-> 0, sleeps |-> 0])]_vars

\* a vision source whose constructor raised, and after it a source that was
\* scraped: one failure, one success
C28_Witness ==
    /\ pc = "loop"
    /\ Len(hist) = 2
    /\ site_method(sites[1]) = "vision"
    /\ hist[1] = [kind |-> "constructor", constructed |-> FALSE, calls |-> 0, sleeps |-> 0]
    /\ hist[2].kind = "ok"
    /\ stats.failed_sites = 1
    /\ stats.successful_sites = 1
    /\ all_events = scrape(sites[2], now)

\* t is HH:MM AM or HH:MM PM with HH in 01..12 and MM in 00..59
Canonical(t) ==
    /\ Len(t) = 8
    /\ SubSeq(t, 1, 2) \in {TwoDigits(h) : h \in 1..12}
    /\ t[3] = ":"
    /\ SubSeq(t, 4, 5) \in {TwoDigits(m) : m \in 0..59}
    /\ t[6] = " "
    /\ SubSeq(t, 7, 8) \in {<<"A", "M">>, <<"P", "M">>}

\* the result of parse_time comes from one of the patterns
FromPattern == TimeTried /\ FuzzyFails /\ \E k \in 0..2 : PatternFound(k)

\* C29 as stated: every result that parse_time takes from one of its patterns
\* (H:MMam/pm, Ham/pm, bare H:MM) is canonical: a two-digit hour in 01..12, a
\* minute in 00..59 and AM or PM in capitals.
C29_FallbackCanonical == FromPattern => Canonical(time_out)

\* the calls of add_summary_sheet made on the sink
SummaryCalls == {i \in 1..Len(sink) : sink[i].op = "add_summary_sheet"}

\* C30: add_summary_sheet is called at most once in a run, only directly after
\* the call of export_events that returned True, and with the statistics of
\* the run; it is not called when export_events returned False or when the
\* exporter could not be constructed; when the credentials are not set no call
\* at all is made on the sink, the run goes on to the report step and a run
\* that finished has been through it.
C30_SummaryAfterExport ==
    /\ Cardinality(SummaryCalls) <= 1
    /\ \A i \in SummaryCalls :
          /\ exported = "ok"
          /\ i = 2
          /\ sink[1].op = "export_events"
          /\ sink[i].arg = stats
    /\ exported = "failed" => SummaryCalls = {} /\ Len(sink) = 1
    /\ exported \in {"constructor", "skipped", "none"} => sink = <<>>
    /\ exported = "skipped" =>
          /\ pc \in {"report", "done", "exited"}
          /\ pc = "exited" => interrupted
          /\ pc = "done" => report.status # "none" /\ exit_code = 0

\* a finished run whose export succeeded: export_events, then
\* add_summary_sheet with the statistics, one of each, of a run that kept an
\* event
C30_Witness ==
    /\ pc = "done"
    /\ exported = "ok"
    /\ Len(sink) = 2
    /\ sink[1].op = "export_events"
    /\ sink[1].arg # <<>>
    /\ sink[2] = [op |-> "add_summary_sheet", arg |-> stats]
    /\ report.status = "written"

====
